---------------------------- MODULE Spec2Model ----------------------------
(***************************************************************************)
(* A model of Main.py: the nutrient sub-parser (parse_nutrients and its    *)
(* two regular expressions), the row expander (build_rows_for_product,     *)
(* build_row) and the conversion loop (convert_json_to_csv).               *)
(*                                                                         *)
(* A Python str is the sequence of its characters' code points: "a(1)" is  *)
(* <<97, 40, 49, 41>>.  Field names and column names, which are only ever  *)
(* compared, stay strings.  A JSON value that is held in a record field is *)
(* a str, None or NonStr.  A JSON value that is iterated or asked for .get *)
(* is a record [type, fields, items, text].                                *)
(***************************************************************************)
EXTENDS Integers, Sequences, FiniteSets, TLC

VARIABLES
    pc,            \* where the running call stands
    nutrient_str,  \* parse_nutrients: its argument
    items,         \* parse_nutrients: the candidate items findall returned
    results,       \* parse_nutrients: the list it returns
    product,       \* the record build_rows_for_product is called with
    rows,          \* the list build_rows_for_product returned (product_rows)
    data,          \* convert_json_to_csv: what json.load makes of the input file
    csvfile,       \* convert_json_to_csv: the output file and the lines written
    idx,           \* convert_json_to_csv: the elements of data taken so far
    row_idx,       \* convert_json_to_csv: the rows of product_rows written so far
    error          \* the exception that ended the call, "none" when none did

vars == <<pc, nutrient_str, items, results, product, rows, data, csvfile, idx,
          row_idx, error>>

---------------------------------------------------------------------------
(* Bounds of the checked inputs.                                           *)

\* Longest text of the exhaustive inputs of parse_nutrients.
MaxLen == 4

\* Longest exhaustive "Nutrient" text of the inputs of build_rows_for_product.
MaxNutrientLen == 3

\* Most items of a generated comma-separated nutrient list.
MaxItems == 2

\* Most elements of the input collection of convert_json_to_csv.
MaxRecords == 2

---------------------------------------------------------------------------
(* Values.                                                                 *)

\* The empty str "".
EmptyStr == <<>>

\* JSON null, Python None (no str: -1 is no code point).
None == <<-1>>

\* A JSON value that is neither a str nor null and is truthy (a number).
NonStr == <<-2>>

\* The characters the two regular expressions name: , ( ) and the line
\* break that "." leaves out.
Comma == 44

OpenParen == 40

CloseParen == 41

LineBreak == 10

\* The None of a COLUMN_MAPPING entry that has no source field.
NoKey == "None"

Min(S) == CHOOSE x \in S : \A y \in S : x <= y

Max(S) == CHOOSE x \in S : \A y \in S : y <= x

\* The characters str.strip() removes, those for which str.isspace() holds:
\* U+0009..U+000D, U+001C..U+001F, U+0020, U+0085, U+00A0, U+1680,
\* U+2000..U+200A, U+2028, U+2029, U+202F, U+205F, U+3000.
IsSpace(c) ==
    \/ c \in 9..13
    \/ c \in 28..32
    \/ c \in {133, 160, 5760}
    \/ c \in 8192..8202
    \/ c \in {8232, 8233, 8239, 8287, 12288}

\* str.strip(): s without its leading and trailing whitespace.
strip(s) ==
    LET keep == {k \in 1..Len(s) : ~IsSpace(s[k])}
    IN  IF keep = {} THEN EmptyStr ELSE SubSeq(s, Min(keep), Max(keep))

\* x or "": a falsy x (None, "") gives "".
or_empty(x) == IF x = None \/ x = EmptyStr THEN EmptyStr ELSE x

---------------------------------------------------------------------------
(* NUTRIENT_ITEM_REGEX = ([^,]+\([^)]*\))                                   *)

\* The last index of the longest run of non-comma characters from i
\* (i - 1 when s[i] is a comma): what a greedy [^,]+ first takes.
RunEnd(s, i) ==
    LET stops == {k \in i..Len(s) : s[k] = Comma}
    IN  IF stops = {} THEN Len(s) ELSE Min(stops) - 1

\* The index of the first ")" after index p, 0 when there is none:
\* where [^)]*\) ends.
FirstClose(s, p) ==
    LET closes == {k \in (p + 1)..Len(s) : s[k] = CloseParen}
    IN  IF closes = {} THEN 0 ELSE Min(closes)

\* The end index of the match of NUTRIENT_ITEM_REGEX that starts at i,
\* 0 when there is none.  [^,]+ is greedy and gives characters back until
\* "(" follows it and a ")" follows that.
NUTRIENT_ITEM_REGEX(s, i) ==
    LET ks == {k \in i..RunEnd(s, i) :
                  /\ k + 1 <= Len(s)
                  /\ s[k + 1] = OpenParen
                  /\ FirstClose(s, k + 1) # 0}
    IN  IF ks = {} THEN 0 ELSE FirstClose(s, Max(ks) + 1)

\* NUTRIENT_ITEM_REGEX.findall(s), scanning from index i: the
\* non-overlapping matches, leftmost first.
RECURSIVE findall(_, _)
findall(s, i) ==
    IF i > Len(s) THEN <<>>
    ELSE LET e == NUTRIENT_ITEM_REGEX(s, i)
         IN  IF e = 0 THEN findall(s, i + 1)
             ELSE <<SubSeq(s, i, e)>> \o findall(s, e + 1)

---------------------------------------------------------------------------
(* NUTRIENT_NAME_AND_QTY_REGEX = (.*?)\((.*?)\)                             *)

\* "." matches any character but a line break.
Dot(c) == c # LineBreak

\* The lengths m of group 2 with which the pattern matches when group 1
\* has length n.
QtyLens(item, n) ==
    {m \in 0..(Len(item) - n - 2) :
        /\ \A k \in (n + 2)..(n + 1 + m) : Dot(item[k])
        /\ item[n + 2 + m] = CloseParen}

\* The lengths n of group 1 with which the pattern matches at the start of
\* the item.
NameLens(item) ==
    {n \in 0..(Len(item) - 1) :
        /\ \A k \in 1..n : Dot(item[k])
        /\ item[n + 1] = OpenParen
        /\ QtyLens(item, n) # {}}

\* NUTRIENT_NAME_AND_QTY_REGEX.match(item): both groups are lazy, so the
\* shortest group 1 and then the shortest group 2 win.
NUTRIENT_NAME_AND_QTY_REGEX(item) ==
    IF NameLens(item) = {}
    THEN [matched |-> FALSE, group1 |-> EmptyStr, group2 |-> EmptyStr]
    ELSE LET n == Min(NameLens(item))
             m == Min(QtyLens(item, n))
         IN  [matched |-> TRUE,
              group1  |-> SubSeq(item, 1, n),
              group2  |-> SubSeq(item, n + 2, n + 1 + m)]

---------------------------------------------------------------------------
(* parse_nutrients                                                         *)

\* The entry of one candidate item.
parse_item(raw) ==
    LET item  == strip(raw)
        match == NUTRIENT_NAME_AND_QTY_REGEX(item)
    IN  IF match.matched
        THEN <<strip(match.group1), strip(match.group2)>>
        ELSE <<item, EmptyStr>>

\* The list of (nutrient_name, quantity) of the raw "Nutrient" field.
parse_nutrients(raw_field) ==
    LET found == findall(or_empty(raw_field), 1)
    IN  [k \in 1..Len(found) |-> parse_item(found[k])]

---------------------------------------------------------------------------
(* JSON values that are iterated or asked for .get                         *)

(* fields: the mapping of a dict; items: what iterating the value yields   *)
(* where that is stored (elements of a list, keys of the iterated object); *)
(* text: the characters of a str.                                          *)

\* A JSON object asked for .get; its key order plays no part in .get.
JsonDict(f) == [type |-> "dict", fields |-> f, items |-> <<>>, text |-> <<>>]

JsonList(l) == [type |-> "list", fields |-> <<>>, items |-> l, text |-> <<>>]

\* A JSON string with code points s: it can be iterated, it has no .get.
JsonStr(s) == [type |-> "str", fields |-> <<>>, items |-> <<>>, text |-> s]

\* The characters of the field names the input objects use.
KeyText(name) ==
    CASE name = "SKU" -> <<83, 75, 85>>
      [] name = "Nutrient" -> <<78, 117, 116, 114, 105, 101, 110, 116>>

\* A str that is a key of a JSON object.
JsonKey(name) == JsonStr(KeyText(name))

\* A JSON object at the top of the file, its keys in the file's order:
\* iterating a dict yields its keys.
JsonObject(f, order) ==
    [type |-> "dict", fields |-> f,
     items |-> [k \in DOMAIN order |-> JsonKey(order[k])], text |-> <<>>]

\* A JSON number: it cannot be iterated and has no .get.
JsonNumber == [type |-> "number", fields |-> <<>>, items |-> <<>>, text |-> <<>>]

\* JSON null (None): it cannot be iterated and has no .get.
JsonNull == [type |-> "null", fields |-> <<>>, items |-> <<>>, text |-> <<>>]

\* A file whose text json.load rejects.
JsonInvalid == [type |-> "invalid", fields |-> <<>>, items |-> <<>>, text |-> <<>>]

\* No value yet (an unbound name).
Unbound == [type |-> "unbound", fields |-> <<>>, items |-> <<>>, text |-> <<>>]

\* A faulty dict_get that forgets the default: d.get(key).
dict_get_no_default(d, key, default) ==
    IF key \in DOMAIN d.fields THEN d.fields[key] ELSE None

\* d.get(key, default) of a dict d.
dict_get(d, key, default) ==
    IF key \in DOMAIN d.fields THEN d.fields[key] ELSE default

---------------------------------------------------------------------------
(* The row expander                                                        *)

COLUMN_MAPPING ==
    << <<"Product Name", "Product Name">>,
       <<"Label Format", "Label Format">>,
       <<"SKU", "SKU">>,
       <<"Product ID", "Product ID">>,
       <<"Size", "Size">>,
       <<"#servper_Cont", "Servings per Container">>,
       <<"ServingSz", "Serving Size">>,
       <<"Kcal", "Calories">>,
       <<"Calories from Fat from Saturated", "Calories from Saturated Fat">>,
       <<"Nutrient", NoKey>>,
       <<"Quantity", NoKey>>,
       <<"Percent Allowance", "Percent Allowance">>,
       <<"Comments", "Comments">>,
       <<"Ingredients", "Ingredients">>,
       <<"Claims", "Claims">>,
       <<"Suggested Use", "Suggested Use">>,
       <<"Warnings", "Warnings">>,
       <<"Origin", "Origin">>,
       <<"Storage", "Storage">>,
       <<"Weight", "Weight">> >>

\* The truth value of a json_key: None and "" are falsy.
Truthy(json_key) == json_key # NoKey /\ json_key # ""

\* What the loop of build_row assigns to row[csv_col] at entry k.
build_cell(product_data, nutrient_name, quantity, is_first_row, k) ==
    LET csv_col  == COLUMN_MAPPING[k][1]
        json_key == COLUMN_MAPPING[k][2]
    IN  IF csv_col = "Nutrient" THEN nutrient_name
        ELSE IF csv_col = "Quantity" THEN quantity
        ELSE IF is_first_row /\ Truthy(json_key)
             THEN dict_get(product_data, json_key, EmptyStr)
             ELSE EmptyStr

\* A faulty build_row that fills the product columns on every row.
build_row_always_first(product_data, nutrient_name, quantity, is_first_row) ==
    [csv_col \in {COLUMN_MAPPING[k][1] : k \in DOMAIN COLUMN_MAPPING} |->
        build_cell(product_data, nutrient_name, quantity, TRUE,
                   Max({k \in DOMAIN COLUMN_MAPPING : COLUMN_MAPPING[k][1] = csv_col}))]

\* The dict keyed by the CSV headers: the last assignment to a key stays.
build_row(product_data, nutrient_name, quantity, is_first_row) ==
    [csv_col \in {COLUMN_MAPPING[k][1] : k \in DOMAIN COLUMN_MAPPING} |->
        build_cell(product_data, nutrient_name, quantity, is_first_row,
                   Max({k \in DOMAIN COLUMN_MAPPING : COLUMN_MAPPING[k][1] = csv_col}))]

\* A faulty build_rows_for_product without the branch for no nutrients.
build_rows_no_empty_branch(p) ==
    LET nutrient_pairs == parse_nutrients(dict_get(p, "Nutrient", EmptyStr))
    IN  [k \in 1..Len(nutrient_pairs) |->
            build_row(p, nutrient_pairs[k][1], nutrient_pairs[k][2], k = 1)]

\* A faulty build_rows_for_product whose row for no nutrients is not a
\* first row.
build_rows_empty_not_first(p) ==
    LET nutrient_pairs == parse_nutrients(dict_get(p, "Nutrient", EmptyStr))
    IN  IF Len(nutrient_pairs) = 0
        THEN <<build_row(p, EmptyStr, EmptyStr, FALSE)>>
        ELSE [k \in 1..Len(nutrient_pairs) |->
                 build_row(p, nutrient_pairs[k][1], nutrient_pairs[k][2], k = 1)]

\* The rows of one product: one per nutrient pair, the first of them the
\* first row (enumerate's i = 0 is k = 1 here), or one first row with blank
\* Nutrient and Quantity when there is no pair.
build_rows_for_product(p) ==
    LET nutrient_pairs == parse_nutrients(dict_get(p, "Nutrient", EmptyStr))
    IN  IF Len(nutrient_pairs) = 0
        THEN <<build_row(p, EmptyStr, EmptyStr, TRUE)>>
        ELSE [k \in 1..Len(nutrient_pairs) |->
                 build_row(p, nutrient_pairs[k][1], nutrient_pairs[k][2], k = 1)]

\* The exception build_rows_for_product(p) raises, "none" when it returns:
\* p.get needs a dict, and findall needs a str.
build_rows_raises(p) ==
    IF p.type # "dict" THEN "AttributeError"
    ELSE IF dict_get(p, "Nutrient", EmptyStr) = NonStr THEN "TypeError"
    ELSE "none"

---------------------------------------------------------------------------
(* The inputs the checks run over.                                         *)

\* a, space, no-break space, line break, comma and the parentheses.
Chars == {97, 32, 160, LineBreak, Comma, OpenParen, CloseParen}

\* Every text of at most n characters.
StringsUpTo(n) == UNION {[1..k -> Chars] : k \in 0..n}

\* "a" and " b".
NameSamples == {<<97>>, <<32, 98>>}

\* "", "1" and "0,5".
QtySamples == {<<>>, <<49>>, <<48, Comma, 53>>}

\* One item of a nutrient list: name(quantity), or the bare name "c".
ItemTexts ==
    {n \o <<OpenParen>> \o q \o <<CloseParen>> : n \in NameSamples, q \in QtySamples}
        \cup {<<99>>}

\* The comma-separated lists of exactly k items.
RECURSIVE ListsOf(_)
ListsOf(k) ==
    IF k = 1 THEN ItemTexts
    ELSE {t \o <<Comma>> \o it : t \in ListsOf(k - 1), it \in ItemTexts}

ListTexts == UNION {ListsOf(k) : k \in 1..MaxItems}

\* The arguments parse_nutrients is checked on.
ParseInputs == StringsUpTo(MaxLen) \cup ListTexts \cup {None}

SampleKeys == {"Product Name", "Weight"}

\* "" and "x".
FieldValues == {EmptyStr, <<120>>}

\* The values of the "Nutrient" field build_rows_for_product is checked on.
NutrientValues == StringsUpTo(MaxNutrientLen) \cup ListTexts \cup {None, NonStr}

\* The records build_rows_for_product is checked on: any subset of the
\* sample fields present, "Nutrient" absent or present.
RowFields ==
    LET others == UNION {[S -> FieldValues] : S \in SUBSET SampleKeys}
    IN  others \cup {g @@ ("Nutrient" :> v) : g \in others, v \in NutrientValues}

RowProducts == {JsonDict(f) : f \in RowFields} \cup {JsonStr(<<120>>)}

\* "a(1)", "a(0,5), b(1)" and "a(1),b(\udc00)", whose second quantity is
\* a lone surrogate.
PipelineNutrients ==
    { <<97, OpenParen, 49, CloseParen>>,
      <<97, OpenParen, 48, Comma, 53, CloseParen, Comma, 32,
        98, OpenParen, 49, CloseParen>>,
      <<97, OpenParen, 49, CloseParen, Comma,
        98, OpenParen, 56320, CloseParen>> }

\* No "SKU", "SKU" "1", and "SKU" a lone surrogate ("\ud800").
PipelineFields ==
    LET others == {<<>>, "SKU" :> <<49>>, "SKU" :> <<55296>>}
    IN  others \cup {g @@ ("Nutrient" :> v) : g \in others, v \in PipelineNutrients}

\* The elements of the input collection: records, a string and a number.
Elements == {JsonDict(f) : f \in PipelineFields} \cup {JsonStr(<<120>>), JsonNumber}

\* The orders in which a file can give the keys of an object.
KeyOrders(keys) ==
    {o \in [1..Cardinality(keys) -> keys] :
        \A i, j \in DOMAIN o : o[i] = o[j] => i = j}

\* The strings at the top of a file: "", "x" and "xy".
TopStrings == {<<>>, <<120>>, <<120, 121>>}

\* The input files convert_json_to_csv is checked on: text that is not
\* JSON, a number, null, a string, a single object, and lists of elements.
Inputs ==
    {JsonInvalid, JsonNumber, JsonNull}
        \cup {JsonStr(s) : s \in TopStrings}
        \cup UNION {{JsonObject(f, o) : o \in KeyOrders(DOMAIN f)} : f \in PipelineFields}
        \cup {JsonList(l) : l \in UNION {[1..k -> Elements] : k \in 0..MaxRecords}}

---------------------------------------------------------------------------
(* parse_nutrients as a call.                                              *)

InitParse ==
    /\ pc = "call"
    /\ nutrient_str \in ParseInputs
    /\ items = <<>>
    /\ results = <<>>
    /\ product = Unbound
    /\ rows = <<>>
    /\ data = Unbound
    /\ csvfile = [state |-> "absent", lines |-> <<>>]
    /\ idx = 0
    /\ row_idx = 0
    /\ error = "none"

ParseNutrients ==
    /\ pc = "call"
    /\ items' = findall(or_empty(nutrient_str), 1)
    /\ results' = parse_nutrients(nutrient_str)
    /\ pc' = "returned"
    /\ UNCHANGED <<nutrient_str, product, rows, data, csvfile, idx, row_idx, error>>

NextParse == ParseNutrients

SpecParse == InitParse /\ [][NextParse]_vars

---------------------------------------------------------------------------
(* build_rows_for_product as a call.                                       *)

InitRows ==
    /\ pc = "call"
    /\ product \in RowProducts
    /\ rows = <<>>
    /\ error = "none"
    /\ nutrient_str = EmptyStr
    /\ items = <<>>
    /\ results = <<>>
    /\ data = Unbound
    /\ csvfile = [state |-> "absent", lines |-> <<>>]
    /\ idx = 0
    /\ row_idx = 0

BuildRows ==
    /\ pc = "call"
    /\ IF build_rows_raises(product) # "none"
       THEN /\ error' = build_rows_raises(product)
            /\ pc' = "raised"
            /\ rows' = rows
       ELSE /\ rows' = build_rows_for_product(product)
            /\ pc' = "returned"
            /\ error' = error
    /\ UNCHANGED <<nutrient_str, items, results, product, data, csvfile, idx, row_idx>>

NextRows == BuildRows

SpecRows == InitRows /\ [][NextRows]_vars

---------------------------------------------------------------------------
(* convert_json_to_csv                                                     *)

\* csv_headers: the left side of each COLUMN_MAPPING entry.
csv_headers == [k \in DOMAIN COLUMN_MAPPING |-> COLUMN_MAPPING[k][1]]

\* The cells DictWriter writes for a row dict: its values in header order.
dict_to_list(row) == [k \in DOMAIN csv_headers |-> row[csv_headers[k]]]

\* Whether "for product in data" can start: a list, a dict and a str
\* are iterable, a number and None are not.
Iterable(d) == d.type \in {"list", "dict", "str"}

\* What "for product in data" walks: the elements of a list, the keys
\* (strings) of a single object, the characters (one-character strings)
\* of a string.
iterate(d) ==
    IF d.type = "str" THEN [k \in 1..Len(d.text) |-> JsonStr(<<d.text[k]>>)]
    ELSE d.items

Init ==
    /\ pc = "load"
    /\ data \in Inputs
    /\ csvfile = [state |-> "absent", lines |-> <<>>]
    /\ idx = 0
    /\ row_idx = 0
    /\ product = Unbound
    /\ rows = <<>>
    /\ error = "none"
    /\ nutrient_str = EmptyStr
    /\ items = <<>>
    /\ results = <<>>

\* data = json.load(f): raises on a text that is not JSON.
LoadJson ==
    /\ pc = "load"
    /\ IF data.type = "invalid"
       THEN error' = "JSONDecodeError" /\ pc' = "raised"
       ELSE error' = error /\ pc' = "open"
    /\ UNCHANGED <<nutrient_str, items, results, product, rows, data, csvfile,
                   idx, row_idx>>

\* open(csv_path, "w"): the file is created or truncated.
OpenCsv ==
    /\ pc = "open"
    /\ csvfile' = [state |-> "open", lines |-> <<>>]
    /\ pc' = "header"
    /\ UNCHANGED <<nutrient_str, items, results, product, rows, data, idx,
                   row_idx, error>>

\* writer.writeheader()
WriteHeader ==
    /\ pc = "header"
    /\ csvfile' = [csvfile EXCEPT
                      !.lines = Append(@, [kind |-> "header", cells |-> csv_headers])]
    /\ pc' = "loop"
    /\ UNCHANGED <<nutrient_str, items, results, product, rows, data, idx,
                   row_idx, error>>

\* One turn of "for product in data" up to the call of
\* build_rows_for_product; an exception leaves the with block, which
\* closes the file with what was written.
NextProduct ==
    /\ pc = "loop"
    /\ IF ~Iterable(data)
       THEN /\ error' = "TypeError"
            /\ pc' = "raised"
            /\ csvfile' = [csvfile EXCEPT !.state = "closed"]
            /\ UNCHANGED <<product, rows, idx, row_idx>>
       ELSE /\ idx < Len(iterate(data))
            /\ idx' = idx + 1
            /\ product' = iterate(data)[idx + 1]
            /\ IF build_rows_raises(product') # "none"
               THEN /\ error' = build_rows_raises(product')
                    /\ pc' = "raised"
                    /\ csvfile' = [csvfile EXCEPT !.state = "closed"]
                    /\ UNCHANGED <<rows, row_idx>>
               ELSE /\ rows' = build_rows_for_product(product')
                    /\ row_idx' = 0
                    /\ pc' = "write"
                    /\ UNCHANGED <<csvfile, error>>
    /\ UNCHANGED <<nutrient_str, items, results, data>>

\* The utf-8 file can encode the text: it holds no surrogate code point
\* (U+D800..U+DFFF).  None is written as "" and a number as its digits.
Encodable(text) == \A k \in 1..Len(text) : text[k] \notin 55296..57343

\* writer.writerow(row) in the loop: the line is written, or, when a cell
\* cannot be encoded, UnicodeEncodeError leaves the with block, which
\* closes the file with what was written before.
writerow(row) ==
    /\ pc = "write"
    /\ row_idx < Len(rows)
    /\ IF \A k \in DOMAIN csv_headers : Encodable(dict_to_list(row)[k])
       THEN /\ csvfile' = [csvfile EXCEPT
                              !.lines = Append(@, [kind  |-> "row",
                                                   cells |-> dict_to_list(row)])]
            /\ row_idx' = row_idx + 1
            /\ UNCHANGED <<pc, error>>
       ELSE /\ error' = "UnicodeEncodeError"
            /\ pc' = "raised"
            /\ csvfile' = [csvfile EXCEPT !.state = "closed"]
            /\ UNCHANGED row_idx
    /\ UNCHANGED <<nutrient_str, items, results, product, rows, data, idx>>

\* A faulty WriteRow that writes product_rows last row first.
WriteRowReversed ==
    /\ row_idx < Len(rows)
    /\ writerow(rows[Len(rows) - row_idx])

\* One turn of "for row in product_rows": writer.writerow(row).
WriteRow ==
    /\ row_idx < Len(rows)
    /\ writerow(rows[row_idx + 1])

\* "for row in product_rows" is exhausted.
EndRows ==
    /\ pc = "write"
    /\ row_idx = Len(rows)
    /\ pc' = "loop"
    /\ UNCHANGED <<nutrient_str, items, results, product, rows, data, csvfile,
                   idx, row_idx, error>>

\* "for product in data" is exhausted: the with block closes the file and
\* the message is printed.
Finish ==
    /\ pc = "loop"
    /\ Iterable(data)
    /\ idx = Len(iterate(data))
    /\ csvfile' = [csvfile EXCEPT !.state = "closed"]
    /\ pc' = "done"
    /\ UNCHANGED <<nutrient_str, items, results, product, rows, data, idx,
                   row_idx, error>>

Next ==
    \/ LoadJson
    \/ OpenCsv
    \/ WriteHeader
    \/ NextProduct
    \/ WriteRow
    \/ EndRows
    \/ Finish

Spec == Init /\ [][Next]_vars

---------------------------------------------------------------------------
(* Properties of the row expander, checked under SpecRows.                 *)

\* The entries of COLUMN_MAPPING that name a source field.
SourceColumns == {k \in DOMAIN COLUMN_MAPPING : COLUMN_MAPPING[k][2] # NoKey}

\* The nutrient pairs of a record, as parse_nutrients returns them.
PairsOf(p) == parse_nutrients(dict_get(p, "Nutrient", EmptyStr))

\* The "Nutrient" field is absent, null, empty or whitespace only.
BlankNutrient(p) ==
    \/ "Nutrient" \notin DOMAIN p.fields
    \/ p.fields["Nutrient"] = None
    \/ p.fields["Nutrient"] # NonStr /\ strip(p.fields["Nutrient"]) = EmptyStr

\* The record maps every field it has to a str.
StrRecord(p) ==
    /\ p.type = "dict"
    /\ \A key \in DOMAIN p.fields : p.fields[key] \notin {None, NonStr}

\* C1: build_rows_for_product returns exactly max(1, n) rows, n the number
\* of entries parse_nutrients returns for the "Nutrient" field, and never
\* zero rows.
C1_RowCount ==
    pc = "returned" =>
        /\ Len(rows) = (IF Len(PairsOf(product)) = 0 THEN 1 ELSE Len(PairsOf(product)))
        /\ Len(rows) >= 1

\* C1 witness: a record with two nutrient entries was expanded into two rows.
C1_Witness ==
    /\ pc = "returned"
    /\ Len(PairsOf(product)) = 2
    /\ Len(rows) = 2

\* C2: row 0 holds product.get(source, "") in every column with a source
\* field; every later row holds "" there and carries only its own entry in
\* Nutrient and Quantity.
C2_FirstRowOnly ==
    pc = "returned" =>
        /\ \A k \in SourceColumns :
               rows[1][COLUMN_MAPPING[k][1]]
                   = dict_get(product, COLUMN_MAPPING[k][2], EmptyStr)
        /\ \A r \in 2..Len(rows) :
               /\ \A k \in SourceColumns : rows[r][COLUMN_MAPPING[k][1]] = EmptyStr
               /\ rows[r]["Nutrient"] = PairsOf(product)[r][1]
               /\ rows[r]["Quantity"] = PairsOf(product)[r][2]

\* C2 witness: a record with a non-empty product field was expanded into
\* a first row and a continuation row.
C2_Witness ==
    /\ pc = "returned"
    /\ Len(rows) = 2
    /\ dict_get(product, "Product Name", EmptyStr) = <<120>>
    /\ rows[2]["Nutrient"] # EmptyStr

\* C5: for a record whose "Nutrient" is absent, null, empty or whitespace
\* only, parse_nutrients returns the empty sequence and
\* build_rows_for_product returns exactly one row, with Nutrient and
\* Quantity empty and every source column holding the record's value.
C5_BlankNutrient ==
    (pc # "call" /\ product.type = "dict" /\ BlankNutrient(product)) =>
        /\ pc = "returned"
        /\ Len(PairsOf(product)) = 0
        /\ Len(rows) = 1
        /\ rows[1]["Nutrient"] = EmptyStr
        /\ rows[1]["Quantity"] = EmptyStr
        /\ \A k \in SourceColumns :
               rows[1][COLUMN_MAPPING[k][1]]
                   = IF COLUMN_MAPPING[k][2] \in DOMAIN product.fields
                     THEN product.fields[COLUMN_MAPPING[k][2]]
                     ELSE EmptyStr

\* C5 witness: a record with a whitespace-only "Nutrient" and a non-empty
\* product field was expanded.
C5_Witness ==
    /\ pc = "returned"
    /\ "Nutrient" \in DOMAIN product.fields
    /\ product.fields["Nutrient"] = <<32, 160, LineBreak>>
    /\ dict_get(product, "Weight", EmptyStr) = <<120>>
    /\ Len(rows) = 1

\* The state part of C8.
C8_State ==
    (pc # "call" /\ StrRecord(product)) =>
        /\ pc = "returned"
        /\ error = "none"
        /\ Len(rows) >= 1
        /\ \A k \in SourceColumns :
               COLUMN_MAPPING[k][2] \notin DOMAIN product.fields
                   => rows[1][COLUMN_MAPPING[k][1]] = EmptyStr

\* C8: for a record that maps field names to strings, with any fields
\* absent and any "Nutrient" text, build_rows_for_product returns rows
\* without raising, every absent source field is "" in the first row, and
\* the record is left unchanged.
C8_MissingFields == [](C8_State) /\ [][product' = product]_vars

\* C8 witness: a record without "Weight", with "Product Name" and with a
\* nutrient text of two entries was expanded.
C8_Witness ==
    /\ pc = "returned"
    /\ StrRecord(product)
    /\ "Weight" \notin DOMAIN product.fields
    /\ "Product Name" \in DOMAIN product.fields
    /\ Len(PairsOf(product)) = 2
    /\ rows[1]["Weight"] = EmptyStr

---------------------------------------------------------------------------
(* Properties of convert_json_to_csv, checked under Spec.                  *)

\* The place of a header among csv_headers.
ColumnOf(name) == CHOOSE k \in DOMAIN csv_headers : csv_headers[k] = name

\* The rows a record's group must have.
GroupSize(p) == IF Len(PairsOf(p)) = 0 THEN 1 ELSE Len(PairsOf(p))

\* The data rows of the groups before group g.
RECURSIVE RowsBefore(_, _)
RowsBefore(recs, g) ==
    IF g = 1 THEN 0 ELSE RowsBefore(recs, g - 1) + GroupSize(recs[g - 1])

\* C6: the header is written once, before any data row; the groups follow
\* the input records in order, none interleaved with another; the i-th row
\* of a group carries the i-th entry parse_nutrients returned.  Every line
\* on the file, also of a run that ended in an error, is at its place; a
\* run that ends without an error has written every group in full.
C6_Order ==
    /\ csvfile.lines # <<>> =>
           /\ csvfile.lines[1].kind = "header"
           /\ \A n \in 2..Len(csvfile.lines) : csvfile.lines[n].kind = "row"
    /\ pc = "done" =>
           Len(csvfile.lines) = 1 + RowsBefore(iterate(data), Len(iterate(data)) + 1)
    /\ data.type = "list" =>
           \A g \in 1..Len(data.items) :
               /\ 1 + RowsBefore(data.items, g) + 1 <= Len(csvfile.lines) =>
                      \A k \in SourceColumns :
                          csvfile.lines[1 + RowsBefore(data.items, g) + 1].cells[k]
                              = dict_get(data.items[g], COLUMN_MAPPING[k][2], EmptyStr)
               /\ \A i \in 1..Len(PairsOf(data.items[g])) :
                      1 + RowsBefore(data.items, g) + i <= Len(csvfile.lines) =>
                          LET line == csvfile.lines[1 + RowsBefore(data.items, g) + i]
                          IN  /\ line.cells[ColumnOf("Nutrient")]
                                     = PairsOf(data.items[g])[i][1]
                              /\ line.cells[ColumnOf("Quantity")]
                                     = PairsOf(data.items[g])[i][2]

\* C6 witness: a run over two records, the first of them with two nutrient
\* entries, ended with every row written.
C6_Witness ==
    /\ pc = "done"
    /\ data.type = "list"
    /\ Len(data.items) = 2
    /\ Len(PairsOf(data.items[1])) = 2
    /\ "SKU" \in DOMAIN data.items[2].fields
    /\ Len(csvfile.lines) >= 4

\* The input is not a sequence of mapping-like records.
StructurallyInvalid(d) ==
    \/ d.type # "list"
    \/ \E n \in 1..Len(d.items) : d.items[n].type # "dict"

\* C7: on a structurally invalid input the failure is reported before
\* anything is written: no run ends in an error after the output file was
\* opened or a header or a row was written.
C7_NoOutputOnInvalidInput ==
    (pc = "raised" /\ StructurallyInvalid(data)) =>
        /\ csvfile.state = "absent"
        /\ csvfile.lines = <<>>

---------------------------------------------------------------------------
(* Properties of parse_nutrients, checked under SpecParse.                 *)

\* The index of the first "(" at or after index i, 0 when there is none.
FirstOpen(s, i) ==
    LET opens == {k \in i..Len(s) : s[k] = OpenParen}
    IN  IF opens = {} THEN 0 ELSE Min(opens)

\* From index i the text is a comma-separated list of items
\* name(quantity): a name of at least one character, no parenthesis and no
\* comma in a name, no ")" in a quantity.
RECURSIVE IsItemList(_, _)
IsItemList(s, i) ==
    LET o == FirstOpen(s, i)
        c == IF o = 0 THEN 0 ELSE FirstClose(s, o)
    IN  /\ o > i
        /\ c # 0
        /\ \A k \in i..(o - 1) : s[k] \notin {Comma, CloseParen}
        /\ \/ c = Len(s)
           \/ s[c + 1] = Comma /\ IsItemList(s, c + 2)

\* The (trimmed name, trimmed quantity) of the items of such a list.
RECURSIVE ItemEntries(_, _)
ItemEntries(s, i) ==
    LET o == FirstOpen(s, i)
        c == FirstClose(s, o)
    IN  << <<strip(SubSeq(s, i, o - 1)), strip(SubSeq(s, o + 1, c - 1))>> >>
            \o (IF c = Len(s) THEN <<>> ELSE ItemEntries(s, c + 2))

\* C3: for a comma-separated list of k items name(quantity), each with a
\* name of at least one character, parse_nutrients returns exactly k entries in the original order, the
\* i-th the trimmed name and trimmed quantity of item i; a comma inside a
\* parenthesized group never splits an item.
C3_WellFormedList ==
    (pc = "returned" /\ nutrient_str # None /\ IsItemList(nutrient_str, 1)) =>
        results = ItemEntries(nutrient_str, 1)

\* Index k of the text lies inside a parenthesized group: the last
\* parenthesis before it is a "(" (the group ends at the first ")").
InGroup(s, k) ==
    LET parens == {j \in 1..(k - 1) : s[j] \in {OpenParen, CloseParen}}
    IN  parens # {} /\ s[Max(parens)] = OpenParen

\* The segments of the text from index i, split at the commas that are not
\* inside a parenthesized group.
RECURSIVE Segments(_, _)
Segments(s, i) ==
    LET seps == {k \in i..Len(s) : s[k] = Comma /\ ~InGroup(s, k)}
    IN  IF seps = {} THEN <<SubSeq(s, i, Len(s))>>
        ELSE <<SubSeq(s, i, Min(seps) - 1)>> \o Segments(s, Min(seps) + 1)

\* C4: every comma-separated item that contains no parenthesis pair is
\* emitted as one entry, its name the trimmed item text and its quantity
\* empty; it is not dropped.
C4_FallbackEntry ==
    (pc = "returned" /\ nutrient_str # None) =>
        \A n \in 1..Len(Segments(nutrient_str, 1)) :
            LET seg == Segments(nutrient_str, 1)[n]
            IN  (/\ strip(seg) # EmptyStr
                 /\ \A k \in 1..Len(seg) : seg[k] \notin {OpenParen, CloseParen})
                    => \E r \in 1..Len(results) : results[r] = <<strip(seg), EmptyStr>>

\* C9: for every candidate item with a parenthesis pair, over any
\* characters, the entry is the trimmed text before the item's first "("
\* and the trimmed text between that "(" and the first ")" after it.
C9_NameAndQuantity ==
    pc = "returned" =>
        /\ Len(results) = Len(items)
        /\ \A n \in 1..Len(items) :
               LET item == strip(items[n])
                   o    == FirstOpen(item, 1)
                   c    == IF o = 0 THEN 0 ELSE FirstClose(item, o)
               IN  (o # 0 /\ c # 0) =>
                       results[n] = <<strip(SubSeq(item, 1, o - 1)),
                                      strip(SubSeq(item, o + 1, c - 1))>>

\* The non-blank trimmed segments of a sequence of segments.
RECURSIVE Trimmed(_)
Trimmed(segs) ==
    IF segs = <<>> THEN <<>>
    ELSE (IF strip(Head(segs)) = EmptyStr THEN <<>> ELSE <<strip(Head(segs))>>)
             \o Trimmed(Tail(segs))

\* C10: the candidate items findall yields are, after trimming, the
\* segments of a scanner that splits the text at exactly the commas that
\* are not inside an open parenthesis group.
C10_ScannerEquivalence ==
    (pc = "returned" /\ nutrient_str # None) =>
        Trimmed(items) = Trimmed(Segments(nutrient_str, 1))

=============================================================================
